---- MODULE Spec2Model ----
(***************************************************************************)
(* Model of faiss/utils/hamming_distance/avx512-inl.h (the HammingComputer *)
(* and GenHammingComputer families) and of the contract of runL2SelectMin  *)
(* declared in faiss/gpu/impl/L2Select.cuh.                                *)
(*                                                                         *)
(* Representation of machine values:                                       *)
(*   - a byte is an integer 0..255;                                        *)
(*   - a uint64_t is the sequence of its 8 bytes, least significant first  *)
(*     (the file is x86 only, so a load of 8 bytes at address p yields the *)
(*     word whose k-th byte is the byte at p+k); a uint32_t is 4 bytes;    *)
(*   - a __m128i / __m256i / __m512i is the sequence of its 16/32/64 bytes;*)
(*   - a movemask (one bit per byte lane) is the sequence of its 32 bits;  *)
(*   - a pointer is the memory it points at: the bytes of the caller's     *)
(*     buffer followed by whatever lies past the end of that buffer.       *)
(***************************************************************************)
EXTENDS Integers, Sequences, FiniteSets, TLC

(***************************************************************************)
(* Bounds of the model.                                                    *)
(***************************************************************************)
\* largest code_size handed to HammingComputerDefault and GenHammingComputerM8
MaxCodeSize == 75

\* hamming calls of one scan (of one reference code)
MaxCalls == 2

\* columns (candidates) of the distance matrix handed to runL2SelectMin
MaxCols == 5

\* largest k asked of runL2SelectMin
MaxK == 3

\* lanes a row's candidates are partitioned across
MaxLanes == 3

(***************************************************************************)
(* Bytes, words and the bit primitives.                                    *)
(***************************************************************************)
Byte == 0..255

\* x ^ y on two bytes, bit by bit, and tabulated
xor8_bits(x, y) ==
    LET d(k) == ((x \div k) + (y \div k)) % 2
    IN  d(1) + 2 * d(2) + 4 * d(4) + 8 * d(8) + 16 * d(16) + 32 * d(32)
          + 64 * d(64) + 128 * d(128)

xor8_tab == [x \in Byte |-> [y \in Byte |-> xor8_bits(x, y)]]

xor8(x, y) == xor8_tab[x][y]

\* x | y on two bytes
or8(x, y) ==
    LET d(k) == IF ((x \div k) % 2) + ((y \div k) % 2) > 0 THEN 1 ELSE 0
    IN  d(1) + 2 * d(2) + 4 * d(4) + 8 * d(8) + 16 * d(16) + 32 * d(32)
          + 64 * d(64) + 128 * d(128)

\* x & y on two bytes
and8(x, y) ==
    LET d(k) == ((x \div k) % 2) * ((y \div k) % 2)
    IN  d(1) + 2 * d(2) + 4 * d(4) + 8 * d(8) + 16 * d(16) + 32 * d(32)
          + 64 * d(64) + 128 * d(128)

\* the number of set bits of a byte
popcount8(x) ==
    (x % 2) + ((x \div 2) % 2) + ((x \div 4) % 2) + ((x \div 8) % 2)
      + ((x \div 16) % 2) + ((x \div 32) % 2) + ((x \div 64) % 2)
      + ((x \div 128) % 2)

\* hamdis_tab_ham_bytes: the table of the population counts of the bytes
hamdis_tab == [x \in Byte |-> popcount8(x)]

hamdis_tab_ham_bytes(x) == hamdis_tab[x]

\* x ^ y on two uint32_t
xor32(x, y) ==
    << xor8(x[1], y[1]), xor8(x[2], y[2]), xor8(x[3], y[3]), xor8(x[4], y[4]) >>

\* x ^ y on two uint64_t
xor64(x, y) ==
    << xor8(x[1], y[1]), xor8(x[2], y[2]), xor8(x[3], y[3]), xor8(x[4], y[4]),
       xor8(x[5], y[5]), xor8(x[6], y[6]), xor8(x[7], y[7]), xor8(x[8], y[8]) >>

\* x | y on two uint64_t
or64(x, y) ==
    << or8(x[1], y[1]), or8(x[2], y[2]), or8(x[3], y[3]), or8(x[4], y[4]),
       or8(x[5], y[5]), or8(x[6], y[6]), or8(x[7], y[7]), or8(x[8], y[8]) >>

\* x & y on two uint64_t
and64(x, y) ==
    << and8(x[1], y[1]), and8(x[2], y[2]), and8(x[3], y[3]), and8(x[4], y[4]),
       and8(x[5], y[5]), and8(x[6], y[6]), and8(x[7], y[7]), and8(x[8], y[8]) >>

\* x >> s on a uint64_t, 0 < s < 8: the low s bits of byte k+1 move into the
\* high bits of byte k, and zeros into the high bits of the last byte
shr64(x, s) ==
    LET lo(k) == x[k] \div (2 ^ s)
        hi(k) == (x[k] % (2 ^ s)) * (2 ^ (8 - s))
    IN  << lo(1) + hi(2), lo(2) + hi(3), lo(3) + hi(4), lo(4) + hi(5),
           lo(5) + hi(6), lo(6) + hi(7), lo(7) + hi(8), lo(8) >>

\* the integral promotion of a uint32_t to 64 bits
zext64(x) == << x[1], x[2], x[3], x[4], 0, 0, 0, 0 >>

\* the conversion of a uint64_t to uint32_t: the low 32 bits
trunc32(x) == << x[1], x[2], x[3], x[4] >>

\* popcount64(x): the number of set bits of a 64-bit word
popcount64(x) ==
    hamdis_tab_ham_bytes(x[1]) + hamdis_tab_ham_bytes(x[2])
      + hamdis_tab_ham_bytes(x[3]) + hamdis_tab_ham_bytes(x[4])
      + hamdis_tab_ham_bytes(x[5]) + hamdis_tab_ham_bytes(x[6])
      + hamdis_tab_ham_bytes(x[7]) + hamdis_tab_ham_bytes(x[8])

\* f[1] + ... + f[n]
RECURSIVE SumTo(_, _)
SumTo(f, n) == IF n = 0 THEN 0 ELSE f[n] + SumTo(f, n - 1)

\* popcount32(x): the number of set bits of a 32-bit mask
popcount32(x) == SumTo(x, 32)

(***************************************************************************)
(* Memory.  A pointer handed to a computer is modelled by the memory that  *)
(* starts at it: the bytes of the caller's buffer, and one byte value that *)
(* stands for whatever is stored past the end of the buffer.               *)
(***************************************************************************)
Mem(buf, pastByte) == [bytes |-> buf, past |-> pastByte]

\* p[off] for a uint8_t* p
ByteAt(p, off) == IF off < Len(p.bytes) THEN p.bytes[off + 1] ELSE p.past

\* *(uint32_t*)(p + off)
load32(p, off) ==
    << ByteAt(p, off), ByteAt(p, off + 1), ByteAt(p, off + 2),
       ByteAt(p, off + 3) >>

\* *(uint64_t*)(p + off)
load64(p, off) ==
    << ByteAt(p, off), ByteAt(p, off + 1), ByteAt(p, off + 2),
       ByteAt(p, off + 3), ByteAt(p, off + 4), ByteAt(p, off + 5),
       ByteAt(p, off + 6), ByteAt(p, off + 7) >>

\* the unaligned vector loads of nbytes bytes at p + off
loadu(p, off, nbytes) == [k \in 1..nbytes |-> ByteAt(p, off + k - 1)]

\* one past the highest byte offset of a set of <<offset, length>> accesses
Extent(reads) ==
    IF reads = {} THEN 0
    ELSE CHOOSE e \in {r[1] + r[2] : r \in reads} :
            \A r \in reads : r[1] + r[2] <= e

Max(x, y) == IF x >= y THEN x ELSE y

(***************************************************************************)
(* The vector intrinsics used by the file (immintrin.h).                   *)
(***************************************************************************)
\* _mm512_xor_si512
mm512_xor_si512(x, y) == [k \in 1..64 |-> xor8(x[k], y[k])]

\* a count below 65536 as a 64-bit lane
lane64(n) == << n % 256, (n \div 256) % 256, 0, 0, 0, 0, 0, 0 >>

\* _mm512_popcnt_epi64: each of the eight 64-bit lanes becomes its popcount
mm512_popcnt_epi64(v) ==
    LET lane(j) ==
            lane64(hamdis_tab_ham_bytes(v[8 * j - 7])
                     + hamdis_tab_ham_bytes(v[8 * j - 6])
                     + hamdis_tab_ham_bytes(v[8 * j - 5])
                     + hamdis_tab_ham_bytes(v[8 * j - 4])
                     + hamdis_tab_ham_bytes(v[8 * j - 3])
                     + hamdis_tab_ham_bytes(v[8 * j - 2])
                     + hamdis_tab_ham_bytes(v[8 * j - 1])
                     + hamdis_tab_ham_bytes(v[8 * j]))
    IN  lane(1) \o lane(2) \o lane(3) \o lane(4) \o lane(5) \o lane(6)
          \o lane(7) \o lane(8)

\* _mm512_reduce_add_epi32: the sum of the sixteen 32-bit lanes, as an int
mm512_reduce_add_epi32(v) ==
    LET lane(j) == v[4 * j - 3] + 256 * v[4 * j - 2] + 65536 * v[4 * j - 1]
                     + 16777216 * v[4 * j]
    IN  SumTo([j \in 1..16 |-> lane(j)], 16)

\* _mm_cmpeq_epi8 / _mm256_cmpeq_epi8: 0xFF in the byte lanes that are equal
cmpeq_epi8(x, y) == [k \in 1..Len(x) |-> IF x[k] = y[k] THEN 255 ELSE 0]

\* _mm_movemask_epi8 / _mm256_movemask_epi8: bit k of the int is the top bit
\* of byte lane k; the bits above the last lane are 0
movemask_epi8(x) == [k \in 1..32 |-> IF k <= Len(x) THEN x[k] \div 128 ELSE 0]

(***************************************************************************)
(* The fixed-width Hamming computers.  For each: set (also the body of the *)
(* two-argument constructor) gives the fields, hamming the distance, and   *)
(* the _reads definitions list the <<offset, length>> memory accesses that *)
(* the same lines make through the pointer argument.                       *)
(***************************************************************************)
HammingComputer4_set(a, code_size) == [a0 |-> load32(a, 0)]

HammingComputer4_set_reads == {<< 0, 4 >>}

HammingComputer4_hamming(self, b) ==
    popcount64(zext64(xor32(load32(b, 0), self.a0)))

HammingComputer4_hamming_reads == {<< 0, 4 >>}

HammingComputer8_set(a, code_size) == [a0 |-> load64(a, 0)]

HammingComputer8_set_reads == {<< 0, 8 >>}

HammingComputer8_hamming(self, b) == popcount64(xor64(load64(b, 0), self.a0))

HammingComputer8_hamming_reads == {<< 0, 8 >>}

HammingComputer16_set(a8, code_size) ==
    LET a(j) == load64(a8, 8 * j)
    IN  [a0 |-> a(0), a1 |-> a(1)]

HammingComputer16_set_reads == {<< 0, 8 >>, << 8, 8 >>}

HammingComputer16_hamming(self, b8) ==
    LET b(j) == load64(b8, 8 * j)
    IN  popcount64(xor64(b(0), self.a0)) + popcount64(xor64(b(1), self.a1))

HammingComputer16_hamming_reads == {<< 0, 8 >>, << 8, 8 >>}

\* a is a uint64_t*, so a[2] is a load of 8 bytes at offset 16; the
\* assignment to the uint32_t field a2 keeps its low half
HammingComputer20_set(a8, code_size) ==
    LET a(j) == load64(a8, 8 * j)
    IN  [a0 |-> a(0), a1 |-> a(1), a2 |-> trunc32(a(2))]

HammingComputer20_set_reads == {<< 0, 8 >>, << 8, 8 >>, << 16, 8 >>}

\* hamming with the offset of the third load taken in bytes:
\*     *(uint32_t*)(b8 + 2)
HammingComputer20_hamming_byteptr(self, b8) ==
    LET b(j) == load64(b8, 8 * j)
    IN  popcount64(xor64(b(0), self.a0)) + popcount64(xor64(b(1), self.a1))
          + popcount64(zext64(xor32(load32(b8, 2), self.a2)))

HammingComputer20_hamming(self, b8) ==
    LET b(j) == load64(b8, 8 * j)
    IN  popcount64(xor64(b(0), self.a0)) + popcount64(xor64(b(1), self.a1))
          + popcount64(zext64(xor32(load32(b8, 8 * 2), self.a2)))

HammingComputer20_hamming_reads == {<< 0, 8 >>, << 8, 8 >>, << 16, 4 >>}

HammingComputer32_set(a8, code_size) ==
    LET a(j) == load64(a8, 8 * j)
    IN  [a0 |-> a(0), a1 |-> a(1), a2 |-> a(2), a3 |-> a(3)]

HammingComputer32_set_reads ==
    {<< 0, 8 >>, << 8, 8 >>, << 16, 8 >>, << 24, 8 >>}

HammingComputer32_hamming(self, b8) ==
    LET b(j) == load64(b8, 8 * j)
    IN  popcount64(xor64(b(0), self.a0)) + popcount64(xor64(b(1), self.a1))
          + popcount64(xor64(b(2), self.a2)) + popcount64(xor64(b(3), self.a3))

HammingComputer32_hamming_reads ==
    {<< 0, 8 >>, << 8, 8 >>, << 16, 8 >>, << 24, 8 >>}

\* the field a keeps the pointer: "a8" names the caller's reference buffer
HammingComputer64_set(a8, code_size) ==
    LET a(j) == load64(a8, 8 * j)
    IN  [a |-> "a8", a0 |-> a(0), a1 |-> a(1), a2 |-> a(2), a3 |-> a(3),
         a4 |-> a(4), a5 |-> a(5), a6 |-> a(6), a7 |-> a(7)]

HammingComputer64_set_reads == {<< 8 * j, 8 >> : j \in 0..7}

\* a is the memory the field a points at; avx512 is __AVX512VPOPCNTDQ__
HammingComputer64_hamming(self, a, b8, avx512) ==
    LET b(j) == load64(b8, 8 * j)
    IN  IF avx512
        THEN LET vxor == mm512_xor_si512(loadu(a, 0, 64), loadu(b8, 0, 64))
                 vpcnt == mm512_popcnt_epi64(vxor)
             IN  mm512_reduce_add_epi32(vpcnt)
        ELSE popcount64(xor64(b(0), self.a0)) + popcount64(xor64(b(1), self.a1))
               + popcount64(xor64(b(2), self.a2))
               + popcount64(xor64(b(3), self.a3))
               + popcount64(xor64(b(4), self.a4))
               + popcount64(xor64(b(5), self.a5))
               + popcount64(xor64(b(6), self.a6))
               + popcount64(xor64(b(7), self.a7))

\* the accesses of hamming through b8, and through the field a
HammingComputer64_hamming_reads(avx512) ==
    IF avx512 THEN {<< 0, 64 >>} ELSE {<< 8 * j, 8 >> : j \in 0..7}

HammingComputer64_hamming_reads_a(avx512) ==
    IF avx512 THEN {<< 0, 64 >>} ELSE {}

(***************************************************************************)
(* HammingComputerDefault.  hamming is followed statement by statement on  *)
(* a record st = [accu, i, len] of its locals, extended with the trace of  *)
(* what was accumulated: blocks (the 64-byte blocks of the wide loop),     *)
(* words (the 64-bit words of the fallthrough chain) and bytes (the        *)
(* trailing bytes of the table chain), each in the order of execution.     *)
(***************************************************************************)
HammingComputerDefault_set(a8_2, code_size) ==
    [a8 |-> "a8", quotient8 |-> code_size \div 8, remainder8 |-> code_size % 8]

\* the loop of the __AVX512VPOPCNTDQ__ build: for (; i < quotient64; ++i)
RECURSIVE wide_loop(_, _, _, _)
wide_loop(a64, b64, quotient64, st) ==
    IF st.i < quotient64
    THEN LET vxor == mm512_xor_si512(loadu(a64, 8 * (st.i * 8), 64),
                                     loadu(b64, 8 * (st.i * 8), 64))
             vpcnt == mm512_popcnt_epi64(vxor)
         IN  wide_loop(a64, b64, quotient64,
                 [st EXCEPT !.accu = @ + mm512_reduce_add_epi32(vpcnt),
                            !.i = @ + 1,
                            !.blocks = Append(@, st.i)])
    ELSE st

\* one statement pair of the unrolled body:
\*     accu += popcount64(a64[i] ^ b64[i]); i++;
word_step(a64, b64, st) ==
    [st EXCEPT !.accu = @ + popcount64(xor64(load64(a64, 8 * st.i),
                                            load64(b64, 8 * st.i))),
               !.i = @ + 1,
               !.words = Append(@, st.i)]

\* execution from the label `case c:` to the end of the while body: c
\* statement pairs, none of which changes len
RECURSIVE fallthrough(_, _, _, _)
fallthrough(a64, b64, c, st) ==
    IF c = 0 THEN st
    ELSE fallthrough(a64, b64, c - 1, word_step(a64, b64, st))

\* while (len > 7) { len -= 8; <statement pair>; case 7: ... case 1: ... }
\* evaluated from the test of its condition
RECURSIVE while_loop(_, _, _)
while_loop(a64, b64, st) ==
    IF st.len > 7
    THEN while_loop(a64, b64,
             fallthrough(a64, b64, 7,
                 word_step(a64, b64, [st EXCEPT !.len = @ - 8])))
    ELSE st

\* the switch with its case labels after the loop instead of inside it: from
\* `case c:` control leaves the switch without testing len again
switch_len_break(a64, b64, st) ==
    LET c == st.len % 8
    IN  IF c = 0 THEN while_loop(a64, b64, st)
        ELSE fallthrough(a64, b64, c, st)

\* switch (len & 7): `default:` is the head of the while loop, `case c:` is
\* a label inside its body, from which control goes on to the loop's test
switch_len(a64, b64, st) ==
    LET c == st.len % 8
    IN  IF c = 0 THEN while_loop(a64, b64, st)
        ELSE while_loop(a64, b64, fallthrough(a64, b64, c, st))

\* the remainder switch with `case c:` reading a[c] ^ b[c]
RECURSIVE switch_remainder_slip(_, _, _, _, _)
switch_remainder_slip(a8, b8, base, c, st) ==
    IF c < 1 \/ c > 7 THEN st
    ELSE switch_remainder_slip(a8, b8, base, c - 1,
             [st EXCEPT !.accu = @ + hamdis_tab_ham_bytes(
                                         xor8(ByteAt(a8, base + c),
                                              ByteAt(b8, base + c))),
                        !.bytes = Append(@, c)])

\* switch (remainder8): from `case c:` down, accu += tab[a[c-1] ^ b[c-1]]
RECURSIVE switch_remainder(_, _, _, _, _)
switch_remainder(a8, b8, base, c, st) ==
    IF c < 1 \/ c > 7 THEN st
    ELSE switch_remainder(a8, b8, base, c - 1,
             [st EXCEPT !.accu = @ + hamdis_tab_ham_bytes(
                                         xor8(ByteAt(a8, base + (c - 1)),
                                              ByteAt(b8, base + (c - 1)))),
                        !.bytes = Append(@, c - 1)])

\* hamming without `i *= 8` after the 512-bit loop
HammingComputerDefault_run_noscale(self, a8, b8, avx512) ==
    LET st0 == [accu |-> 0, i |-> 0, len |-> 0,
                blocks |-> << >>, words |-> << >>, bytes |-> << >>]
        st1 == IF avx512
               THEN wide_loop(a8, b8, self.quotient8 \div 8, st0)
               ELSE st0
        st2 == switch_len(a8, b8, [st1 EXCEPT !.len = self.quotient8 - st1.i])
    IN  IF self.remainder8 # 0
        THEN switch_remainder(a8, b8, 8 * self.quotient8, self.remainder8, st2)
        ELSE st2

\* the locals of hamming when it returns; a8 is the memory the field a8
\* points at, avx512 is __AVX512VPOPCNTDQ__
HammingComputerDefault_run(self, a8, b8, avx512) ==
    LET st0 == [accu |-> 0, i |-> 0, len |-> 0,
                blocks |-> << >>, words |-> << >>, bytes |-> << >>]
        st1 == IF avx512
               THEN LET w == wide_loop(a8, b8, self.quotient8 \div 8, st0)
                    IN  [w EXCEPT !.i = @ * 8]
               ELSE st0
        st2 == switch_len(a8, b8, [st1 EXCEPT !.len = self.quotient8 - st1.i])
    IN  IF self.remainder8 # 0
        THEN switch_remainder(a8, b8, 8 * self.quotient8, self.remainder8, st2)
        ELSE st2

HammingComputerDefault_hamming(self, a8, b8, avx512) ==
    HammingComputerDefault_run(self, a8, b8, avx512).accu

\* the accesses of a run st of hamming, the same through a8 and through b8
HammingComputerDefault_hamming_reads(self, st) ==
    {<< 64 * st.blocks[j], 64 >> : j \in 1..Len(st.blocks)}
      \cup {<< 8 * st.words[j], 8 >> : j \in 1..Len(st.words)}
      \cup {<< 8 * self.quotient8 + st.bytes[j], 1 >> : j \in 1..Len(st.bytes)}

HammingComputerDefault_get_code_size(self) ==
    self.quotient8 * 8 + self.remainder8

(***************************************************************************)
(* Generalized Hamming: the number of bytes that differ.                   *)
(***************************************************************************)
\* the smear without its last step, a |= a >> 4
generalized_hamming_64_short(a) ==
    LET a1 == or64(a, shr64(a, 1))
        a2 == or64(a1, shr64(a1, 2))
        a4 == and64(a2, << 1, 1, 1, 1, 1, 1, 1, 1 >>)
    IN  popcount64(a4)

generalized_hamming_64(a) ==
    LET a1 == or64(a, shr64(a, 1))
        a2 == or64(a1, shr64(a1, 2))
        a3 == or64(a2, shr64(a2, 4))
        a4 == and64(a3, << 1, 1, 1, 1, 1, 1, 1, 1 >>)
    IN  popcount64(a4)

GenHammingComputer8_ctor(a, code_size) == [a0 |-> load64(a, 0)]

GenHammingComputer8_ctor_reads == {<< 0, 8 >>}

GenHammingComputer8_hamming(self, b) ==
    generalized_hamming_64(xor64(load64(b, 0), self.a0))

GenHammingComputer8_hamming_reads == {<< 0, 8 >>}

GenHammingComputer16_ctor(a8, code_size) == [a |-> loadu(a8, 0, 16)]

GenHammingComputer16_ctor_reads == {<< 0, 16 >>}

GenHammingComputer16_hamming(self, b8) ==
    LET b == loadu(b8, 0, 16)
        cmp == cmpeq_epi8(self.a, b)
        movemask == movemask_epi8(cmp)
    IN  16 - popcount32(movemask)

GenHammingComputer16_hamming_reads == {<< 0, 16 >>}

GenHammingComputer32_ctor(a8, code_size) == [a |-> loadu(a8, 0, 32)]

GenHammingComputer32_ctor_reads == {<< 0, 32 >>}

GenHammingComputer32_hamming(self, b8) ==
    LET b == loadu(b8, 0, 32)
        cmp == cmpeq_epi8(self.a, b)
        movemask == movemask_epi8(cmp)
    IN  32 - popcount32(movemask)

GenHammingComputer32_hamming_reads == {<< 0, 32 >>}

GenHammingComputerM8_ctor(a8, code_size) ==
    [a |-> "a8", n |-> code_size \div 8]

\* for (; i < n4; i += 4): one 32-byte compare per iteration
RECURSIVE block_loop(_, _, _, _)
block_loop(a, b, n4, st) ==
    IF st.i < n4
    THEN LET av == loadu(a, 8 * st.i, 32)
             bv == loadu(b, 8 * st.i, 32)
             cmp == cmpeq_epi8(av, bv)
             movemask == movemask_epi8(cmp)
         IN  block_loop(a, b, n4,
                 [st EXCEPT !.accu = @ + (32 - popcount32(movemask)),
                            !.i = @ + 4,
                            !.blocks = Append(@, st.i)])
    ELSE st

\* for (; i < n; i++) accu += generalized_hamming_64(a[i] ^ b[i]);
RECURSIVE tail_loop(_, _, _, _)
tail_loop(a, b, n, st) ==
    IF st.i < n
    THEN tail_loop(a, b, n,
             [st EXCEPT !.accu = @ + generalized_hamming_64(
                                         xor64(load64(a, 8 * st.i),
                                              load64(b, 8 * st.i))),
                        !.i = @ + 1,
                        !.words = Append(@, st.i)])
    ELSE st

\* the locals of hamming when it returns, with the trace of the 32-byte
\* blocks (by first word) and of the tail words it accumulated
GenHammingComputerM8_run(self, a, b) ==
    LET st0 == [accu |-> 0, i |-> 0, blocks |-> << >>, words |-> << >>]
        n4 == (self.n \div 4) * 4
    IN  tail_loop(a, b, self.n, block_loop(a, b, n4, st0))

GenHammingComputerM8_hamming(self, a, b) ==
    GenHammingComputerM8_run(self, a, b).accu

\* the accesses of a run st of hamming, the same through a and through b
GenHammingComputerM8_hamming_reads(self, st) ==
    {<< 8 * st.blocks[j], 32 >> : j \in 1..Len(st.blocks)}
      \cup {<< 8 * st.words[j], 8 >> : j \in 1..Len(st.words)}

GenHammingComputerM8_get_code_size(self) == self.n * 8

(***************************************************************************)
(* The variants, and the dispatch of an operation to the variant's code.   *)
(***************************************************************************)
HammingKinds ==
    {"HammingComputer4", "HammingComputer8", "HammingComputer16",
     "HammingComputer20", "HammingComputer32", "HammingComputer64"}

GenKinds ==
    {"GenHammingComputer8", "GenHammingComputer16", "GenHammingComputer32"}

FixedKinds == HammingKinds \cup GenKinds

Kinds == FixedKinds \cup {"HammingComputerDefault", "GenHammingComputerM8"}

\* the variants with a set method (the others have a constructor only)
SetKinds == HammingKinds \cup {"HammingComputerDefault"}

\* the static constexpr get_code_size() of the fixed-width variants
Width(kd) ==
    CASE kd = "HammingComputer4" -> 4
      [] kd = "HammingComputer8" -> 8
      [] kd = "HammingComputer16" -> 16
      [] kd = "HammingComputer20" -> 20
      [] kd = "HammingComputer32" -> 32
      [] kd = "HammingComputer64" -> 64
      [] kd = "GenHammingComputer8" -> 8
      [] kd = "GenHammingComputer16" -> 16
      [] kd = "GenHammingComputer32" -> 32

get_code_size(kd, self) ==
    CASE kd = "HammingComputerDefault" ->
             HammingComputerDefault_get_code_size(self)
      [] kd = "GenHammingComputerM8" -> GenHammingComputerM8_get_code_size(self)
      [] OTHER -> Width(kd)

\* the asserts of the fixed-width variants written with <= for ==
AssertCondition_atmost(kd, code_size) ==
    CASE kd = "HammingComputerDefault" -> TRUE
      [] kd = "GenHammingComputerM8" -> code_size % 8 = 0
      [] OTHER -> code_size <= Width(kd)

\* the condition of the assert at the head of set / of the constructor
AssertCondition(kd, code_size) ==
    CASE kd = "HammingComputerDefault" -> TRUE
      [] kd = "GenHammingComputerM8" -> code_size % 8 = 0
      [] OTHER -> code_size = Width(kd)

\* assert(c) of <cassert>: with NDEBUG defined it expands to nothing
assert_passes(NDEBUG, c) == NDEBUG \/ c

\* the fields after set(a, code_size) / after the two-argument constructor
set_fields(kd, a, code_size) ==
    CASE kd = "HammingComputer4" -> HammingComputer4_set(a, code_size)
      [] kd = "HammingComputer8" -> HammingComputer8_set(a, code_size)
      [] kd = "HammingComputer16" -> HammingComputer16_set(a, code_size)
      [] kd = "HammingComputer20" -> HammingComputer20_set(a, code_size)
      [] kd = "HammingComputer32" -> HammingComputer32_set(a, code_size)
      [] kd = "HammingComputer64" -> HammingComputer64_set(a, code_size)
      [] kd = "HammingComputerDefault" ->
             HammingComputerDefault_set(a, code_size)
      [] kd = "GenHammingComputer8" -> GenHammingComputer8_ctor(a, code_size)
      [] kd = "GenHammingComputer16" -> GenHammingComputer16_ctor(a, code_size)
      [] kd = "GenHammingComputer32" -> GenHammingComputer32_ctor(a, code_size)
      [] kd = "GenHammingComputerM8" -> GenHammingComputerM8_ctor(a, code_size)

set_reads(kd) ==
    CASE kd = "HammingComputer4" -> HammingComputer4_set_reads
      [] kd = "HammingComputer8" -> HammingComputer8_set_reads
      [] kd = "HammingComputer16" -> HammingComputer16_set_reads
      [] kd = "HammingComputer20" -> HammingComputer20_set_reads
      [] kd = "HammingComputer32" -> HammingComputer32_set_reads
      [] kd = "HammingComputer64" -> HammingComputer64_set_reads
      [] kd = "HammingComputerDefault" -> {}
      [] kd = "GenHammingComputer8" -> GenHammingComputer8_ctor_reads
      [] kd = "GenHammingComputer16" -> GenHammingComputer16_ctor_reads
      [] kd = "GenHammingComputer32" -> GenHammingComputer32_ctor_reads
      [] kd = "GenHammingComputerM8" -> {}

NoTrace == [blocks |-> << >>, words |-> << >>, bytes |-> << >>]

Call(r, readsA, readsB, tr) ==
    [ret |-> r, aReads |-> readsA, bReads |-> readsB, trace |-> tr]

\* before the first hamming call
NoCall == Call(0, {}, {}, NoTrace)

\* one call hamming(b) on the computer with fields self: the value returned,
\* the accesses through the retained pointer (a) and through b, the trace
hamming_call(kd, self, a, b, avx512) ==
    CASE kd = "HammingComputer4" ->
             Call(HammingComputer4_hamming(self, b), {},
                  HammingComputer4_hamming_reads, NoTrace)
      [] kd = "HammingComputer8" ->
             Call(HammingComputer8_hamming(self, b), {},
                  HammingComputer8_hamming_reads, NoTrace)
      [] kd = "HammingComputer16" ->
             Call(HammingComputer16_hamming(self, b), {},
                  HammingComputer16_hamming_reads, NoTrace)
      [] kd = "HammingComputer20" ->
             Call(HammingComputer20_hamming(self, b), {},
                  HammingComputer20_hamming_reads, NoTrace)
      [] kd = "HammingComputer32" ->
             Call(HammingComputer32_hamming(self, b), {},
                  HammingComputer32_hamming_reads, NoTrace)
      [] kd = "HammingComputer64" ->
             Call(HammingComputer64_hamming(self, a, b, avx512),
                  HammingComputer64_hamming_reads_a(avx512),
                  HammingComputer64_hamming_reads(avx512), NoTrace)
      [] kd = "HammingComputerDefault" ->
             LET st == HammingComputerDefault_run(self, a, b, avx512)
                 rd == HammingComputerDefault_hamming_reads(self, st)
             IN  Call(st.accu, rd, rd,
                      [blocks |-> st.blocks, words |-> st.words,
                       bytes |-> st.bytes])
      [] kd = "GenHammingComputer8" ->
             Call(GenHammingComputer8_hamming(self, b), {},
                  GenHammingComputer8_hamming_reads, NoTrace)
      [] kd = "GenHammingComputer16" ->
             Call(GenHammingComputer16_hamming(self, b), {},
                  GenHammingComputer16_hamming_reads, NoTrace)
      [] kd = "GenHammingComputer32" ->
             Call(GenHammingComputer32_hamming(self, b), {},
                  GenHammingComputer32_hamming_reads, NoTrace)
      [] kd = "GenHammingComputerM8" ->
             LET st == GenHammingComputerM8_run(self, a, b)
                 rd == GenHammingComputerM8_hamming_reads(self, st)
             IN  Call(st.accu, rd, rd,
                      [blocks |-> st.blocks, words |-> st.words,
                       bytes |-> << >>])

\* a hamming that counts its words down in the field quotient8
hamming_fields_consumed(kd, self) ==
    IF kd = "HammingComputerDefault" THEN [self EXCEPT !.quotient8 = 0]
    ELSE self

\* hamming is a const member function: it assigns to no field
hamming_fields(kd, self) == self

(***************************************************************************)
(* The codes and the sizes the callers of the model use.                   *)
(***************************************************************************)
RefSeeds == {0, 7}

\* a reference code of n bytes: all zero (seed 0), or a ramp of bytes
RefCode(seed, n) ==
    [i \in 1..n |-> IF seed = 0 THEN 0 ELSE ((i - 1) * 29 + seed) % 256]

Complement(A) == [i \in 1..Len(A) |-> xor8(A[i], 255)]

DeltaMasks == {128, 255}

\* the candidates of the last call of a scan against reference code A: A, its
\* complement, and A with one byte changed, in each position
Candidates(A) ==
    {A, Complement(A)}
      \cup {[A EXCEPT ![p] = xor8(@, m)] : p \in 1..Len(A), m \in DeltaMasks}

\* the candidate of the earlier calls of a scan
Probes(A) == {Complement(A)}

FixedWidths == {4, 8, 16, 20, 32, 64}

\* the code sizes a caller passes to the constructor of each variant
SizesTried(kd) ==
    CASE kd = "HammingComputerDefault" -> 0..MaxCodeSize
      [] kd = "GenHammingComputerM8" -> {n \in 0..MaxCodeSize : n % 4 = 0}
      [] OTHER -> FixedWidths

\* an access past the end of a caller's buffer is undefined behaviour; it is
\* modelled as a load that yields some byte, the same at every offset, and
\* these are the values tried for it.  Only a computer whose accesses go past
\* the end can tell them apart (no
\* variant reads further in hamming than in its constructor, and the two
\* pointer-based variants stay within quotient8 * 8 + remainder8 and n * 8)
PastBytes == {0, 255}

PastTried(kd, cs) ==
    IF Extent(set_reads(kd)) > cs THEN PastBytes ELSE {0}

(***************************************************************************)
(* runL2SelectMin (L2Select.cuh declares it; its definition is not among   *)
(* the files modelled, so what it does follows its specification): the     *)
(* effective value of column c is productDistances[q][c] +                 *)
(* centroidDistances[c]; each lane keeps a sorted buffer of at most k      *)
(* <<value, column>> entries over its share of the row; the buffers are    *)
(* merged pairwise, level by level.  Columns are numbered from 0.          *)
(***************************************************************************)
\* the order of the selection: smaller value first, lower column on a tie
Before(x, y) == x[1] < y[1] \/ (x[1] = y[1] /\ x[2] < y[2])

\* the <<value, column>> entry of column c (c = 1 is column 0)
Entry(row, bias, c) == << row[c] + bias[c], c - 1 >>

\* a sorted buffer of capacity k after the insertion of entry e
InsertSorted(buf, e, k) ==
    LET pos == Cardinality({j \in 1..Len(buf) : Before(buf[j], e)})
        all == SubSeq(buf, 1, pos) \o << e >> \o SubSeq(buf, pos + 1, Len(buf))
    IN  SubSeq(all, 1, IF Len(all) < k THEN Len(all) ELSE k)

\* the columns of lane l (0-based) of a row of n columns, in increasing order
LaneColumns(n, lanes, l, strided) ==
    LET chunk == (n + lanes - 1) \div lanes
    IN  IF strided THEN {c \in 1..n : (c - 1) % lanes = l}
        ELSE {c \in 1..n : (c - 1) \div chunk = l}

\* the buffer of a lane after it has streamed the columns cols, the lowest
\* column first
RECURSIVE LaneTopK(_, _, _, _, _)
LaneTopK(row, bias, cols, k, buf) ==
    IF cols = {} THEN buf
    ELSE LET c == CHOOSE x \in cols : \A y \in cols : x <= y
         IN  LaneTopK(row, bias, cols \ {c}, k,
                      InsertSorted(buf, Entry(row, bias, c), k))

\* a merge that, on equal values, takes the entry of the left buffer
RECURSIVE MergeTopK_leftfirst(_, _, _)
MergeTopK_leftfirst(x, y, k) ==
    IF k = 0 \/ (x = << >> /\ y = << >>) THEN << >>
    ELSE IF y = << >> \/ (x # << >> /\ Head(x)[1] <= Head(y)[1])
         THEN << Head(x) >> \o MergeTopK_leftfirst(Tail(x), y, k - 1)
         ELSE << Head(y) >> \o MergeTopK_leftfirst(x, Tail(y), k - 1)

\* the merge of two sorted buffers into one of capacity k
RECURSIVE MergeTopK(_, _, _)
MergeTopK(x, y, k) ==
    IF k = 0 \/ (x = << >> /\ y = << >>) THEN << >>
    ELSE IF y = << >> \/ (x # << >> /\ Before(Head(x), Head(y)))
         THEN << Head(x) >> \o MergeTopK(Tail(x), y, k - 1)
         ELSE << Head(y) >> \o MergeTopK(x, Tail(y), k - 1)

\* one level of the tree reduction: buffers 1 and 2, 3 and 4, ... merged
RECURSIVE MergeLevel(_, _)
MergeLevel(bufs, k) ==
    IF Len(bufs) <= 1 THEN bufs
    ELSE << MergeTopK(bufs[1], bufs[2], k) >>
             \o MergeLevel(SubSeq(bufs, 3, Len(bufs)), k)

RECURSIVE TreeReduce(_, _)
TreeReduce(bufs, k) ==
    IF Len(bufs) = 1 THEN bufs[1] ELSE TreeReduce(MergeLevel(bufs, k), k)

\* the buffers of lanes l, l + 1, ..., lanes - 1 (0-based) over one row
RECURSIVE LaneBuffers(_, _, _, _, _, _)
LaneBuffers(row, bias, k, lanes, strided, l) ==
    IF l = lanes THEN << >>
    ELSE << LaneTopK(row, bias, LaneColumns(Len(row), lanes, l, strided),
                     k, << >>) >>
             \o LaneBuffers(row, bias, k, lanes, strided, l + 1)

\* the k-selection of one row by one execution group of `lanes` lanes
SelectRow(row, bias, k, lanes, strided) ==
    TreeReduce(LaneBuffers(row, bias, k, lanes, strided, 0), k)

\* a launch that does not check k
SelectArgsValid_unchecked(k, numCandidates) == TRUE

\* the check of the arguments before the launch
SelectArgsValid(k, numCandidates) == k <= numCandidates

\* the inputs of the model: rows over a few distances, a zero or an
\* alternating bias, one query row or two
DistVals == {1, 3, 4, 5}

Reverse(r) == [c \in 1..Len(r) |-> r[Len(r) + 1 - c]]

\* the distances of the two-row matrices
PairVals == {1, 3}

Rows(vals) == UNION {[1..n -> vals] : n \in 1..MaxCols}

Matrices ==
    {<< r >> : r \in Rows(DistVals)}
        \cup {<< r, Reverse(r) >> : r \in Rows(PairVals)}

Biases(n) == {[c \in 1..n |-> 0], [c \in 1..n |-> c % 2]}

(***************************************************************************)
(* State.                                                                  *)
(***************************************************************************)
VARIABLES
    NDEBUG,       \* the build defines NDEBUG (assert expands to nothing)
    AVX512,       \* the build defines __AVX512VPOPCNTDQ__
    past,         \* the byte value stored past the end of the buffers
    kind,         \* the variant of the computer, "none" before construction
    status,       \* "new", "ready", or "aborted" by a failed assert
    code_size,    \* the code_size argument of the last construction / set
    abuf,         \* the caller's reference buffer (code_size bytes)
    self,         \* the fields of the computer
    self0,        \* the fields as the last construction / set left them
    bbuf,         \* the candidate buffer of the last hamming call
    last,         \* the last hamming call: the value returned, its accesses
                  \* through the reference and the candidate, its trace
    calls,        \* hamming calls since the last construction / set
    aHi,          \* one past the highest offset read through the reference
    productDistances,   \* the distance matrix, a sequence of rows
    centroidDistances,  \* the bias, one entry per column
    k,                  \* the k of the launch
    launch,       \* "idle", "running", "done", or "InvalidArgument"
    pending,      \* the rows whose execution group has not written yet
    outDistances, \* per row: the k selected values (<< >>: not written)
    outIndices    \* per row: the columns they came from

cvars == << NDEBUG, AVX512, past, kind, status, code_size, abuf, self, self0,
            bbuf, last, calls, aHi >>

svars == << productDistances, centroidDistances, k, launch, pending,
            outDistances, outIndices >>

vars == << cvars, svars >>

\* the value the last hamming call returned
ret == last.ret

\* what the last hamming call accumulated, in order
trace == last.trace

\* one past the highest offset the last hamming call read of its candidate
bHi == Extent(last.bReads)

\* no computer constructed yet
ComputerIdle ==
    /\ past = 0
    /\ kind = "none"
    /\ status = "new"
    /\ code_size = 0
    /\ abuf = << >>
    /\ self = << >>
    /\ self0 = << >>
    /\ bbuf = << >>
    /\ last = NoCall
    /\ calls = 0
    /\ aHi = 0

\* no selection launched yet
SelectIdle ==
    /\ productDistances = << >>
    /\ centroidDistances = << >>
    /\ k = 0
    /\ launch = "idle"
    /\ pending = {}
    /\ outDistances = << >>
    /\ outIndices = << >>

\* the binary distance computers, in each of the four builds
Init ==
    /\ NDEBUG \in BOOLEAN
    /\ AVX512 \in BOOLEAN
    /\ ComputerIdle
    /\ SelectIdle

\* the body of set(a, cs), which is also the body of the constructors; pb is
\* what the memory past the end of the caller's cs bytes holds
DoSet(kd, seed, cs, pb) ==
    /\ kind' = kd
    /\ code_size' = cs
    /\ abuf' = RefCode(seed, cs)
    /\ past' = pb
    /\ bbuf' = << >>
    /\ last' = NoCall
    /\ calls' = 0
    /\ IF assert_passes(NDEBUG, AssertCondition(kd, cs))
       THEN /\ status' = "ready"
            /\ self' = set_fields(kd, Mem(abuf', pb), cs)
            /\ self0' = self'
            /\ aHi' = Extent(set_reads(kd))
       ELSE /\ status' = "aborted"
            /\ self' = << >>
            /\ self0' = << >>
            /\ aHi' = 0
    /\ UNCHANGED << NDEBUG, AVX512 >>
    /\ UNCHANGED svars

\* Computer(a, code_size)
Construct(kd, seed, cs, pb) ==
    /\ status = "new"
    /\ DoSet(kd, seed, cs, pb)

\* computer.set(a, code_size) on a constructed computer, before the last
\* call of the scan in progress
Set(seed, cs, pb) ==
    /\ status = "ready"
    /\ kind \in SetKinds
    /\ calls < MaxCalls
    /\ DoSet(kind, seed, cs, pb)

\* computer.hamming(b)
Hamming(b) ==
    /\ status = "ready"
    /\ calls < MaxCalls
    /\ last' = hamming_call(kind, self, Mem(abuf, past), Mem(b, past), AVX512)
    /\ aHi' = Max(aHi, Extent(last'.aReads))
    /\ self' = hamming_fields(kind, self)
    /\ bbuf' = b
    /\ calls' = calls + 1
    /\ UNCHANGED << NDEBUG, AVX512, past, kind, status, code_size, abuf,
                    self0 >>
    /\ UNCHANGED svars

Next ==
    \/ \E kd \in Kinds : \E seed \in RefSeeds : \E cs \in SizesTried(kd) :
          \E pb \in PastTried(kd, cs) : Construct(kd, seed, cs, pb)
    \/ /\ status = "ready"
       /\ kind \in SetKinds
       /\ calls < MaxCalls
       /\ \E seed \in RefSeeds : \E pb \in PastTried(kind, code_size) :
             Set(seed, code_size, pb)
    \/ /\ status = "ready"
       /\ calls < MaxCalls
       /\ \E b \in (IF calls + 1 < MaxCalls THEN Probes(abuf)
                    ELSE Candidates(abuf)) : Hamming(b)

Spec == Init /\ [][Next]_vars

(***************************************************************************)
(* The selection: the launch, the execution groups (one per row, in any    *)
(* order), and the synchronization of the host on the stream.              *)
(***************************************************************************)
\* runL2SelectMin(productDistances, centroidDistances, outDistances,
\*                outIndices, k, stream)
runL2SelectMin(m, bias, kk) ==
    /\ launch = "idle"
    /\ productDistances' = m
    /\ centroidDistances' = bias
    /\ k' = kk
    /\ outDistances' = [q \in 1..Len(m) |-> << >>]
    /\ outIndices' = [q \in 1..Len(m) |-> << >>]
    /\ IF SelectArgsValid(kk, Len(bias))
       THEN /\ launch' = "running"
            /\ pending' = 1..Len(m)
       ELSE /\ launch' = "InvalidArgument"
            /\ pending' = {}
    /\ UNCHANGED cvars

\* the write of the selected entries sel into row q of the two outputs
WriteRow(q, sel) ==
    /\ outDistances' =
           [outDistances EXCEPT ![q] = [j \in 1..Len(sel) |-> sel[j][1]]]
    /\ outIndices' =
           [outIndices EXCEPT ![q] = [j \in 1..Len(sel) |-> sel[j][2]]]

\* the execution group of row q selects and writes the row's k results
RowGroup(q, lanes, strided) ==
    /\ launch = "running"
    /\ q \in pending
    /\ WriteRow(q, SelectRow(productDistances[q], centroidDistances, k, lanes,
                             strided))
    /\ pending' = pending \ {q}
    /\ UNCHANGED << productDistances, centroidDistances, k, launch >>
    /\ UNCHANGED cvars

\* the host's synchronization on the stream returns
StreamSynchronize ==
    /\ launch = "running"
    /\ pending = {}
    /\ launch' = "done"
    /\ UNCHANGED << productDistances, centroidDistances, k, pending,
                    outDistances, outIndices >>
    /\ UNCHANGED cvars

InitSelect ==
    /\ NDEBUG = FALSE
    /\ AVX512 = FALSE
    /\ ComputerIdle
    /\ SelectIdle

NextSelect ==
    \/ /\ launch = "idle"
       /\ \E m \in Matrices : \E bias \in Biases(Len(m[1])) :
             \E kk \in 1..MaxK : runL2SelectMin(m, bias, kk)
    \/ \E q \in pending : \E lanes \in 1..MaxLanes : \E strided \in BOOLEAN :
          RowGroup(q, lanes, strided)
    \/ StreamSynchronize

SpecSelect == InitSelect /\ [][NextSelect]_vars

(***************************************************************************)
(* What the distances are meant to be, stated without the code: the number *)
(* of bit positions, and of byte positions, in which two codes differ.     *)
(***************************************************************************)
Bit(x, j) == (x \div (2 ^ j)) % 2

BitDiff(A, B) ==
    Cardinality({ij \in (1..Len(A)) \X (0..7) :
                    Bit(A[ij[1]], ij[2]) # Bit(B[ij[1]], ij[2])})

ByteDiff(A, B) == Cardinality({i \in 1..Len(A) : A[i] # B[i]})

\* the fixed-width variant of each family for a code of w bytes
HammingComputerOf(w) ==
    CASE w = 4 -> "HammingComputer4"
      [] w = 8 -> "HammingComputer8"
      [] w = 16 -> "HammingComputer16"
      [] w = 20 -> "HammingComputer20"
      [] w = 32 -> "HammingComputer32"
      [] w = 64 -> "HammingComputer64"

GenHammingComputerOf(w) ==
    CASE w = 8 -> "GenHammingComputer8"
      [] w = 16 -> "GenHammingComputer16"
      [] w = 32 -> "GenHammingComputer32"

\* what a computer of variant kd, constructed on the code A, returns for the
\* candidate B, the bytes past the end of both buffers being pb
Distance(kd, A, B, pb, avx512) ==
    hamming_call(kd, set_fields(kd, Mem(A, pb), Len(A)), Mem(A, pb),
                 Mem(B, pb), avx512).ret

\* a hamming call has returned on a constructed computer
Called == status = "ready" /\ calls > 0

\* how often the run of HammingComputerDefault::hamming counted word w (a
\* 512-bit block counts its eight words) and byte t of the tail
WordVisits(w) ==
    Cardinality({j \in DOMAIN trace.words : trace.words[j] = w})
      + Cardinality({j \in DOMAIN trace.blocks : trace.blocks[j] = w \div 8})

ByteVisits(t) == Cardinality({j \in DOMAIN trace.bytes : trace.bytes[j] = t})

(***************************************************************************)
(* C1: for every width w in {4, 8, 16, 20, 32, 64} and all codes A, B of w *)
(* bytes, HammingComputerDefault(A, w).hamming(B) and                      *)
(* HammingComputer<w>(A, w).hamming(B) return the same value.  Checked     *)
(* from both sides: what a Default computer returned equals what the       *)
(* fixed-width variant computes, and what a fixed-width computer returned  *)
(* equals what Default computes.                                           *)
(***************************************************************************)
C1_DefaultEqualsFixedWidth ==
    (Called /\ code_size \in FixedWidths) =>
        /\ kind = "HammingComputerDefault" =>
              \A pb \in PastBytes :
                  ret = Distance(HammingComputerOf(code_size), abuf, bbuf, pb,
                                 AVX512)
        /\ (kind \in HammingKinds /\ code_size = Width(kind)) =>
              ret = Distance("HammingComputerDefault", abuf, bbuf, past,
                             AVX512)

\* a Default computer of 20 bytes has answered for a candidate that differs
\* from the reference in some bits, not in all
C1_Witness ==
    /\ Called
    /\ kind = "HammingComputerDefault"
    /\ code_size = 20
    /\ ret > 0
    /\ ret < 160

(***************************************************************************)
(* C2: for every code_size n >= 0, HammingComputerDefault::hamming returns *)
(* the number of bit positions in which the two n-byte codes differ; set   *)
(* splits n into quotient8 = n / 8 words and remainder8 = n % 8 bytes, the *)
(* run counts each of the quotient8 words exactly once (all of them in the *)
(* switch/while chain when the 512-bit loop is not compiled in) and each   *)
(* of the remainder8 tail bytes exactly once.                              *)
(***************************************************************************)
C2_DefaultCountsEachBitOnce ==
    (Called /\ kind = "HammingComputerDefault") =>
        /\ self.quotient8 = code_size \div 8
        /\ self.remainder8 = code_size % 8
        /\ ret = BitDiff(abuf, bbuf)
        /\ \A w \in 0..((code_size \div 8) - 1) : WordVisits(w) = 1
        /\ Len(trace.words) + 8 * Len(trace.blocks) = code_size \div 8
        /\ ~AVX512 => trace.blocks = << >>
        /\ \A t \in 0..((code_size % 8) - 1) : ByteVisits(t) = 1
        /\ Len(trace.bytes) = code_size % 8

\* a scalar run over more than eight words and a tail of bytes
C2_Witness ==
    /\ Called
    /\ kind = "HammingComputerDefault"
    /\ ~AVX512
    /\ code_size \div 8 > 8
    /\ code_size % 8 > 0
    /\ ret > 0

(***************************************************************************)
(* C3: for every Hamming variant (4, 8, 16, 20, 32, 64, Default) and codes *)
(* A, B of its size, the computer built on A returns for B what the        *)
(* computer built on B returns for A, and a computer returns 0 for its own *)
(* reference code.                                                         *)
(***************************************************************************)
C3_SymmetricAndZeroOnSelf ==
    (/\ Called
     /\ kind \in HammingKinds \cup {"HammingComputerDefault"}
     /\ AssertCondition(kind, code_size)) =>
        /\ ret = Distance(kind, bbuf, abuf, past, AVX512)
        /\ bbuf = abuf => ret = 0

\* a 20-byte computer has answered for a candidate other than its reference
C3_Witness ==
    /\ Called
    /\ kind = "HammingComputer20"
    /\ code_size = 20
    /\ bbuf # abuf
    /\ ret > 0

(***************************************************************************)
(* C4: for GenHammingComputer8, 16, 32 and GenHammingComputerM8 (code      *)
(* sizes that are multiples of 8), hamming returns the number of byte      *)
(* positions in which the two codes differ, whatever the differing bits    *)
(* are; for 8, 16 and 32 bytes GenHammingComputerM8 and the fixed-width    *)
(* variant return the same value.                                          *)
(***************************************************************************)
C4_GenCountsDifferingBytes ==
    (/\ Called
     /\ kind \in GenKinds \cup {"GenHammingComputerM8"}
     /\ AssertCondition(kind, code_size)) =>
        /\ ret = ByteDiff(abuf, bbuf)
        /\ (kind = "GenHammingComputerM8" /\ code_size \in {8, 16, 32}) =>
              ret = Distance(GenHammingComputerOf(code_size), abuf, bbuf, past,
                             AVX512)
        /\ kind \in GenKinds =>
              ret = Distance("GenHammingComputerM8", abuf, bbuf, past, AVX512)

\* a 16-byte GenHammingComputerM8 has answered 1 for a candidate that differs
\* from the reference in one byte
C4_Witness ==
    /\ Called
    /\ kind = "GenHammingComputerM8"
    /\ code_size = 16
    /\ ByteDiff(abuf, bbuf) = 1
    /\ ret = 1

(***************************************************************************)
(* C5, as the code has it: constructing a fixed-width computer of width w  *)
(* with codeSize = w succeeds; with codeSize # w the construction stops in *)
(* the assert, and no computer exists, in a build where asserts are        *)
(* compiled in (NDEBUG not defined).                                       *)
(***************************************************************************)
C5_AssertStopsWrongWidth ==
    kind \in FixedKinds =>
        /\ code_size = Width(kind) => status = "ready"
        /\ (code_size # Width(kind) /\ ~NDEBUG) =>
              (status = "aborted" /\ self = << >> /\ calls = 0)

\* C5 as the claim states it: in every build, constructing a fixed-width
\* computer with codeSize # w fails and yields no usable computer
C5_WrongWidthNeverConstructs ==
    (kind \in FixedKinds /\ code_size # Width(kind)) => status = "aborted"

\* the construction of a 20-byte computer with codeSize 16 has stopped in the
\* assert
C5_Witness ==
    /\ ~NDEBUG
    /\ kind = "HammingComputer20"
    /\ code_size = 16
    /\ status = "aborted"

(***************************************************************************)
(* C6, as the code has it: after a construction with a code size n that    *)
(* meets the variant's precondition (n = w for a fixed-width variant, n a  *)
(* multiple of 8 for GenHammingComputerM8, any n for Default), and after   *)
(* any number of hamming calls, get_code_size() returns n and the fields   *)
(* are those the construction left; for Default quotient8 * 8 + remainder8 *)
(* = n.                                                                    *)
(***************************************************************************)
C6_CodeSizeAndFieldsStable ==
    (status = "ready" /\ AssertCondition(kind, code_size)) =>
        /\ get_code_size(kind, self) = code_size
        /\ self = self0
        /\ kind = "HammingComputerDefault" =>
              self.quotient8 * 8 + self.remainder8 = code_size

\* C6 as the claim states it: after any construction that returned a
\* computer, get_code_size() returns the n it was constructed with
C6_CodeSizeAfterAnyConstruction ==
    status = "ready" =>
        (get_code_size(kind, self) = code_size /\ self = self0)

\* a Default computer of 13 bytes after its second hamming call
C6_Witness ==
    /\ status = "ready"
    /\ kind = "HammingComputerDefault"
    /\ code_size = 13
    /\ calls > 1

(***************************************************************************)
(* C9: for HammingComputer64 and HammingComputerDefault, the build with    *)
(* __AVX512VPOPCNTDQ__ and the build without it return the same value for  *)
(* every code_size and pair of codes; in the AVX-512 build of Default the  *)
(* 512-bit loop takes quotient8 / 8 blocks and the words after them, 8 *   *)
(* (quotient8 / 8) .. quotient8 - 1, go through the scalar chain in order. *)
(***************************************************************************)
C9_Avx512EqualsScalar ==
    (/\ Called
     /\ kind \in {"HammingComputer64", "HammingComputerDefault"}
     /\ AssertCondition(kind, code_size)) =>
        /\ ret = hamming_call(kind, self, Mem(abuf, past), Mem(bbuf, past),
                              ~AVX512).ret
        /\ (kind = "HammingComputerDefault" /\ AVX512) =>
              LET q == code_size \div 8
              IN  /\ trace.blocks = [j \in 1..(q \div 8) |-> j - 1]
                  /\ trace.words =
                         [j \in 1..(q % 8) |-> 8 * (q \div 8) + j - 1]

\* an AVX-512 run of Default with a 512-bit block, a word after it and a tail
C9_Witness ==
    /\ Called
    /\ kind = "HammingComputerDefault"
    /\ AVX512
    /\ Len(trace.blocks) = 1
    /\ Len(trace.words) = 1
    /\ Len(trace.bytes) = 3
    /\ ret > 0

(***************************************************************************)
(* C10: a fixed-width Hamming computer of width w reads only the offsets   *)
(* 0 .. w - 1 of the reference code, in its construction, and of the       *)
(* candidate, in hamming.  HammingComputer20::set reads a[2], eight bytes  *)
(* at offset 16, and so the offsets 20 .. 23.                              *)
(***************************************************************************)
C10_ReadsWithinWidth ==
    (status = "ready" /\ kind \in HammingKinds /\ code_size = Width(kind)) =>
        (aHi <= Width(kind) /\ bHi <= Width(kind))

(***************************************************************************)
(* The selection as its specification states it: the entries of a row in   *)
(* the order of the result, smaller value first and lower column on equal  *)
(* values.                                                                 *)
(***************************************************************************)
Precedes(x, y) == x[1] < y[1] \/ (x[1] = y[1] /\ x[2] < y[2])

RowEntries(q) ==
    {<< productDistances[q][c] + centroidDistances[c], c - 1 >> :
        c \in 1..Len(centroidDistances)}

\* the number of the entries of row q that come before entry e
Rank(q, e) == Cardinality({x \in RowEntries(q) : Precedes(x, e)})

Written(q) == launch \in {"running", "done"} /\ q \notin pending

(***************************************************************************)
(* C7: for every row q the select writes the k smallest values of          *)
(* productDistances[q][c] + centroidDistances[c], in ascending order, with *)
(* the columns they come from, equal values in the order of their columns: *)
(* the j-th result is the entry that exactly j - 1 entries of the row      *)
(* precede.  It is the same for every number of lanes and either way of    *)
(* dividing the columns among them.                                        *)
(***************************************************************************)
C7_SelectWritesKSmallest ==
    \A q \in DOMAIN productDistances :
        Written(q) =>
            /\ Len(outDistances[q]) = k
            /\ Len(outIndices[q]) = k
            /\ \A j \in 1..k :
                  LET e == << outDistances[q][j], outIndices[q][j] >>
                  IN  e \in RowEntries(q) /\ Rank(q, e) = j - 1

\* the row [5, 1, 4, 1, 3] with no bias and k = 2: values [1, 1], columns
\* [1, 3]
C7_Witness ==
    /\ launch = "done"
    /\ productDistances = << << 5, 1, 4, 1, 3 >> >>
    /\ centroidDistances = << 0, 0, 0, 0, 0 >>
    /\ k = 2
    /\ outDistances = << << 1, 1 >> >>
    /\ outIndices = << << 1, 3 >> >>

====
